---- MODULE Spec2Model ----
(***************************************************************************)
(* State-machine model of api/app.py: the upload / background-indexing     *)
(* pipeline, pre-indexed acceptance, deletion, the multi-document chat     *)
(* handler with its streaming generator, and the two session backends      *)
(* (files under chat_history/ versus the in-memory chat_sessions table).   *)
(*                                                                         *)
(* The server is one asyncio event loop, so an action is the code that     *)
(* runs between two suspension points (an await or a yield of the          *)
(* streaming generator).  Python dicts are functions whose DOMAIN is the   *)
(* key set.  ChatSession objects live in session_objects and are referred  *)
(* to by object id, because the handlers share and mutate them in place.   *)
(***************************************************************************)
EXTENDS Integers, Sequences, FiniteSets, TLC

\* ---------------------------------------------------------------- bounds
MaxFiles == 2
MaxSessions == 1
MaxTurns == 2
MaxChunks == 2
MaxStream == 1
MaxListLen == 2
MaxTextLen == 2500

\* ------------------------------------------------------ program constants
\* k=2 of vector_db.search_by_text(request.user_message, k=2, ...)
PerDocumentK == 2

\* CharacterTextSplitter(chunk_size=1000, chunk_overlap=200)
ChunkSize == 1000
ChunkOverlap == 200

FileIds == 1..MaxFiles
SessionIds == 1..MaxSessions
Turns == 1..MaxTurns

VARIABLES
    IS_READONLY,          \* module constant computed once at import time
    OPENAI_API_KEY,       \* whether os.getenv("OPENAI_API_KEY") is set
    indexing_status,      \* dict file_id -> [status, message]
    vector_databases,     \* dict file_id -> [vectors, chunks]
    chat_sessions,        \* dict session_id -> object id of a ChatSession
    memory_stored_files,  \* dict file_id -> bytes (only its key set matters)
    uploads_dir,          \* file ids with a file "<id>_<name>" under uploads/
    chat_history_dir,     \* session_id -> JSON text of "<id>.json"
    session_objects,      \* object id -> the ChatSession object's fields
    index_tasks,          \* file_id -> the asyncio task running index_file
    chat_turns,           \* request number -> the chat request's position
    usedIds,              \* file ids already produced by uuid4 or taken by a client
    chunker               \* the text last given to the splitter and its chunks

vars == << IS_READONLY, OPENAI_API_KEY, indexing_status, vector_databases,
           chat_sessions, memory_stored_files, uploads_dir,
           chat_history_dir, session_objects, index_tasks, chat_turns,
           usedIds, chunker >>

\* ------------------------------------------------------------ dict helpers
\* a table with one slot that every key shares
Put_shared(d, k, v) == [x \in (DOMAIN d) \cup {k} |-> v]

\* d[k] = v of a Python dict
Put(d, k, v) == [x \in (DOMAIN d) \cup {k} |-> IF x = k THEN v ELSE d[x]]

\* a del that leaves the key where it is
Del_kept(d, k) == d

\* del d[k]
Del(d, k) == [x \in (DOMAIN d) \ {k} |-> d[x]]

\* ------------------------------------------------------------ list helpers
\* lists of file ids a request can carry (file_ids: List[str])
FileIdLists == UNION { [1..n -> FileIds] : n \in 0..MaxListLen }

\* file_id in session.file_ids
InList(s, x) == \E i \in 1..Len(s) : s[i] = x

\* list.remove(x): removes the first occurrence only
ListRemove(s, x) ==
    LET i == CHOOSE j \in 1..Len(s) : s[j] = x /\ \A k \in 1..(j-1) : s[k] # x
    IN  [j \in 1..(Len(s)-1) |-> IF j < i THEN s[j] ELSE s[j+1]]

IsPrefix(s, t) == Len(s) <= Len(t) /\ \A i \in 1..Len(s) : s[i] = t[i]

\* a lookup whose default is the first stage instead of "unknown"
StatusOf_default_pending(f) ==
    IF f \in DOMAIN indexing_status THEN indexing_status[f].status ELSE "pending"

\* indexing_status.get(file_id, {"status": "unknown", ...})["status"]
StatusOf(f) ==
    IF f \in DOMAIN indexing_status THEN indexing_status[f].status ELSE "unknown"

\* a file id derived from the upload instead of drawn afresh: the same id again
uuid4_repeated == CHOOSE f \in FileIds : \A g \in FileIds : f <= g

\* str(uuid.uuid4()) of upload_file: an id no request has used before
uuid4 == CHOOSE f \in FileIds \ usedIds : \A g \in FileIds \ usedIds : f <= g

\* ------------------------------------------------------------ initial state
EmptyDict == << >>

Init ==
    /\ IS_READONLY \in BOOLEAN
    /\ OPENAI_API_KEY \in BOOLEAN
    /\ indexing_status = EmptyDict
    /\ vector_databases = EmptyDict
    /\ chat_sessions = EmptyDict
    /\ memory_stored_files = EmptyDict
    /\ uploads_dir = {}
    /\ chat_history_dir = EmptyDict
    /\ session_objects = EmptyDict
    /\ index_tasks = EmptyDict
    /\ chat_turns = [t \in Turns |-> [pc |-> "idle", session |-> 0, fragments |-> 0]]
    /\ usedIds = {}
    /\ chunker = [length |-> 0, chunks |-> << >>]

\* -------------------------------------------------------------- vector store
\* VectorDatabase.abuild_from_list(chunks): embeds every chunk and inserts it
BuildFromList(nchunks) == [vectors |-> nchunks, chunks |-> nchunks]

\* the insert loop over zip(request.chunks, request.embeddings)
InsertZipped(nchunks, nembeddings) ==
    [vectors |-> IF nchunks <= nembeddings THEN nchunks ELSE nembeddings,
     chunks  |-> nchunks]

\* an embedding call that holds the event loop: no request is served while
\* a job is inside it
ClientFileIds_blocked ==
    { f \in FileIds : /\ f \in DOMAIN index_tasks => index_tasks[f].pc # "created"
                      /\ \A g \in DOMAIN index_tasks : index_tasks[g].pc # "embedding" }

\* The file ids a request can name.  A client learns the id of an upload
\* from upload_file's response, and asyncio.create_task has queued the first
\* step of index_file before that response is sent: the event loop runs that
\* step before it reads any request sent after the response.
ClientFileIds ==
    { f \in FileIds : f \in DOMAIN index_tasks => index_tasks[f].pc # "created" }

ClientFileIdLists == { l \in FileIdLists : \A i \in 1..Len(l) : l[i] \in ClientFileIds }

\* ------------------------------------------------------------------ chunker
\* CharacterTextSplitter.split on a text of `length` characters: a window of
\* `size` characters starts every size - overlap characters, as long as the
\* start is inside the text; the last windows are cut at the end of the
\* text.  A chunk is kept as where it starts and how long it is.
Split(length, size, overlap) ==
    LET step  == size - overlap
        count == (length + step - 1) \div step
    IN  [i \in 1..count |->
            [start  |-> (i - 1) * step,
             length |-> IF (i - 1) * step + size <= length
                        THEN size
                        ELSE length - (i - 1) * step]]

\* the texts the splitter is given: one block of 0..MaxTextLen characters
TextLengths == 0..MaxTextLen

\* a splitter built without overlap
split_texts_no_overlap(length) ==
    /\ chunker' = [length |-> length, chunks |-> Split(length, ChunkSize, 0)]
    /\ UNCHANGED << IS_READONLY, OPENAI_API_KEY, indexing_status, vector_databases,
                    chat_sessions, memory_stored_files, uploads_dir,
                    chat_history_dir, session_objects, index_tasks, chat_turns,
                    usedIds >>

\* splitter = CharacterTextSplitter(chunk_size=1000, chunk_overlap=200);
\* chunks = splitter.split_texts(documents), documents being one text block
split_texts(length) ==
    /\ chunker' = [length |-> length,
                   chunks |-> Split(length, ChunkSize, ChunkOverlap)]
    /\ UNCHANGED << IS_READONLY, OPENAI_API_KEY, indexing_status, vector_databases,
                    chat_sessions, memory_stored_files, uploads_dir,
                    chat_history_dir, session_objects, index_tasks, chat_turns,
                    usedIds >>

\* ------------------------------------------------------------------- upload
\* get_file_type: "text" stands for the md/txt, csv and json branches, which
\* differ only in the extractor called
FileTypes == {"pdf", "text"}

\* the indexing_status field of upload_file's FileUploadResponse
UploadResponseStatus == "pending"

\* POST /api/upload-file with a supported extension and at most 10MB.  In a
\* read-only environment the handler returns before it records a status or
\* starts a task.
upload_file(file_type) ==
    /\ usedIds # FileIds
    /\ LET file_id == uuid4 IN
       /\ usedIds' = usedIds \cup {file_id}
       /\ IF IS_READONLY
          THEN UNCHANGED << indexing_status, uploads_dir, index_tasks >>
          ELSE /\ uploads_dir' = uploads_dir \cup {file_id}
               /\ indexing_status' = Put(indexing_status, file_id,
                      [status |-> "pending", message |-> "uploaded"])
               /\ index_tasks' = Put(index_tasks, file_id,
                      [pc |-> "created", file_type |-> file_type, chunks |-> 0])
    /\ UNCHANGED << chunker, IS_READONLY, OPENAI_API_KEY, vector_databases, chat_sessions,
                    memory_stored_files, chat_history_dir, session_objects,
                    chat_turns >>

\* ----------------------------------------------------------------- indexing
\* an except branch that leaves the status where the job had put it
FailedStatus_unrecorded(cause) == [status |-> "indexing", message |-> cause]

\* the record an except branch writes: {"status": "failed", "message":
\* f"Indexing failed: {str(e)}"}, the cause standing for str(e)
FailedStatus(cause) == [status |-> "failed", message |-> cause]

\* index_file from its first line to `await vector_db.abuild_from_list`:
\* status "indexing", store the pdf, extract, chunk.  `extracted` is whether
\* the extractor returned blocks, nchunks what the splitter made of them.
index_file_start(file_id, extracted, nchunks) ==
    /\ file_id \in DOMAIN index_tasks
    /\ index_tasks[file_id].pc = "created"
    /\ IF index_tasks[file_id].file_type = "pdf"
       THEN IF IS_READONLY
            THEN /\ memory_stored_files' = Put(memory_stored_files, file_id, "bytes")
                 /\ UNCHANGED uploads_dir
            ELSE /\ uploads_dir' = uploads_dir \cup {file_id}
                 /\ UNCHANGED memory_stored_files
       ELSE UNCHANGED << memory_stored_files, uploads_dir >>
    /\ IF extracted
       THEN /\ indexing_status' = Put(indexing_status, file_id,
                   [status |-> "indexing", message |-> "creating embeddings"])
            /\ index_tasks' = Put(index_tasks, file_id,
                   [index_tasks[file_id] EXCEPT !.pc = "embedding", !.chunks = nchunks])
       ELSE /\ indexing_status' = Put(indexing_status, file_id,
                   FailedStatus("extraction"))
            /\ index_tasks' = Del(index_tasks, file_id)
    /\ UNCHANGED << chunker, IS_READONLY, OPENAI_API_KEY, vector_databases, chat_sessions,
                    chat_history_dir, session_objects, chat_turns, usedIds >>

\* index_file after the await: install the store, write indexes/<id>.json
\* (a file nothing reads back, so only whether the write succeeds is kept),
\* status "completed"; any exception on the way sets "failed".  `embedded` is
\* whether abuild_from_list returned, `written` whether the metadata file
\* could be written.
index_file_finish(file_id, embedded, written) ==
    /\ file_id \in DOMAIN index_tasks
    /\ index_tasks[file_id].pc = "embedding"
    /\ IF ~embedded
       THEN /\ indexing_status' = Put(indexing_status, file_id,
                   FailedStatus("embedding"))
            /\ UNCHANGED vector_databases
       ELSE /\ vector_databases' = Put(vector_databases, file_id,
                   BuildFromList(index_tasks[file_id].chunks))
            /\ IF IS_READONLY \/ written
               THEN indexing_status' = Put(indexing_status, file_id,
                        [status |-> "completed", message |-> "indexed"])
               ELSE indexing_status' = Put(indexing_status, file_id,
                        FailedStatus("index write"))
    /\ index_tasks' = Del(index_tasks, file_id)
    /\ UNCHANGED << chunker, IS_READONLY, OPENAI_API_KEY, chat_sessions, memory_stored_files,
                    uploads_dir, chat_history_dir, session_objects, chat_turns,
                    usedIds >>

\* ------------------------------------------------------ pre-indexed acceptance
\* the validation without its comparison of the two lengths
PreIndexedAccepted_unchecked_lengths(nchunks, nembeddings, inserted) ==
    ~(nchunks = 0 \/ nembeddings = 0) /\ inserted

\* the validation of accept_pre_indexed_file and the outcome of its insert loop
PreIndexedAccepted(nchunks, nembeddings, inserted) ==
    ~(nchunks = 0 \/ nembeddings = 0) /\ nchunks = nembeddings /\ inserted

\* POST /api/pre-indexed-file: nchunks = len(request.chunks), nembeddings =
\* len(request.embeddings), inserted = whether every vector_db.insert returned
accept_pre_indexed_file(file_id, nchunks, nembeddings, inserted) ==
    /\ file_id \in ClientFileIds
    /\ usedIds' = usedIds \cup {file_id}
    /\ IF PreIndexedAccepted(nchunks, nembeddings, inserted)
       THEN /\ vector_databases' = Put(vector_databases, file_id,
                   InsertZipped(nchunks, nembeddings))
            /\ indexing_status' = Put(indexing_status, file_id,
                   [status |-> "completed", message |-> "indexed from browser"])
       ELSE /\ indexing_status' = Put(indexing_status, file_id,
                   FailedStatus("pre-indexed"))
            /\ UNCHANGED vector_databases
    /\ UNCHANGED << chunker, IS_READONLY, OPENAI_API_KEY, chat_sessions, memory_stored_files,
                    uploads_dir, chat_history_dir, session_objects, index_tasks,
                    chat_turns >>

\* ------------------------------------------------------------------- status
\* a status read that puts a failed document back in the queue
get_file_indexing_status_retrying(file_id) ==
    /\ file_id \in ClientFileIds
    /\ indexing_status' = IF StatusOf(file_id) = "failed"
                          THEN Put(indexing_status, file_id,
                                   [status |-> "pending", message |-> "uploaded"])
                          ELSE indexing_status
    /\ UNCHANGED << chunker, IS_READONLY, OPENAI_API_KEY, vector_databases,
                    chat_sessions, memory_stored_files, uploads_dir,
                    chat_history_dir, session_objects, index_tasks, chat_turns,
                    usedIds >>

\* GET /api/files/{file_id}/status: returns StatusOf(file_id), writes nothing
get_file_indexing_status(file_id) ==
    /\ file_id \in ClientFileIds
    /\ StatusOf(file_id) \in {"unknown", "pending", "indexing", "completed", "failed"}
    /\ UNCHANGED vars

\* ------------------------------------------------------------ chat sessions
\* a message of session.messages; `turn` is the number of the request that
\* appended it and stands for the message's timestamp
Message(role, content, t) == [role |-> role, content |-> content, turn |-> t]

\* load_chat_session's None
NoSession == [session_id |-> 0, file_ids |-> << >>, messages |-> << >>]

\* ChatSession(session_id=..., file_ids=request.file_ids, messages=[])
NewSession(session_id, file_ids) ==
    [session_id |-> session_id, file_ids |-> file_ids, messages |-> << >>]

\* a dump taken before the last message was appended
json_dump_stale(session) ==
    << ToString(session.session_id), ToString(Len(session.file_ids)) >>
    \o [i \in 1..Len(session.file_ids) |-> ToString(session.file_ids[i])]
    \o [j \in 1..(3 * (IF session.messages = << >> THEN 0
                         ELSE Len(session.messages) - 1)) |->
           LET m == session.messages[((j - 1) \div 3) + 1] IN
           CASE (j - 1) % 3 = 0 -> m.role
             [] (j - 1) % 3 = 1 -> m.content
             [] OTHER -> ToString(m.turn)]

\* json.dump(session.dict(), f): the text of the file, as its scalar tokens in
\* document order (session id, the file ids behind their count, then role,
\* content and timestamp of every message)
json_dump(session) ==
    << ToString(session.session_id), ToString(Len(session.file_ids)) >>
    \o [i \in 1..Len(session.file_ids) |-> ToString(session.file_ids[i])]
    \o [j \in 1..(3 * Len(session.messages)) |->
           LET m == session.messages[((j - 1) \div 3) + 1] IN
           CASE (j - 1) % 3 = 0 -> m.role
             [] (j - 1) % 3 = 1 -> m.content
             [] OTHER -> ToString(m.turn)]

\* the largest number a session file can hold
ParseMax == MaxFiles + MaxSessions + MaxTurns + MaxListLen

\* the number a JSON token spells
ParseInt(token) == CHOOSE n \in 0..ParseMax : ToString(n) = token

\* ChatSession(**json.load(f))
json_load(tokens) ==
    LET n    == ParseInt(tokens[2])
        rest == SubSeq(tokens, 3 + n, Len(tokens))
    IN  [session_id |-> ParseInt(tokens[1]),
         file_ids   |-> [i \in 1..n |-> ParseInt(tokens[2 + i])],
         messages   |-> [k \in 1..(Len(rest) \div 3) |->
                            Message(rest[3 * k - 2], rest[3 * k - 1],
                                    ParseInt(rest[3 * k]))]]

\* load_chat_session(session_id)
load_chat_session(session_id) ==
    IF IS_READONLY
    THEN IF session_id \in DOMAIN chat_sessions
         THEN session_objects[chat_sessions[session_id]]
         ELSE NoSession
    ELSE IF session_id \in DOMAIN chat_history_dir
         THEN json_load(chat_history_dir[session_id])
         ELSE NoSession

\* get_all_chat_sessions()
get_all_chat_sessions ==
    IF IS_READONLY
    THEN { session_objects[chat_sessions[sid]] : sid \in DOMAIN chat_sessions }
    ELSE { json_load(chat_history_dir[sid]) : sid \in DOMAIN chat_history_dir }

\* save_chat_session(session) for the ChatSession object o: the table and the
\* directory it leaves.  `written` is whether chat_history/<id>.json could
\* be opened and written (nothing creates chat_history/); a failed write is
\* caught, printed as a warning and leaves the files as they were.
save_chat_session(session, o, written) ==
    [chat_sessions    |-> IF IS_READONLY
                          THEN Put(chat_sessions, session.session_id, o)
                          ELSE chat_sessions,
     chat_history_dir |-> IF IS_READONLY \/ ~written
                          THEN chat_history_dir
                          ELSE Put(chat_history_dir, session.session_id,
                                   json_dump(session))]

\* ChatSession objects are reference counted: one that neither chat_sessions
\* nor a running request refers to is gone
Collect(objects, sessions, turns) ==
    [o \in { x \in DOMAIN objects :
                \/ \E sid \in DOMAIN sessions : sessions[sid] = x
                \/ \E t \in Turns : turns[t].pc \in {"responding", "streaming"}
                                    /\ turns[t].session = x }
        |-> objects[o]]

MaxObjects == MaxSessions + MaxTurns

\* the identity of a newly constructed ChatSession
NewObject ==
    CHOOSE o \in 1..MaxObjects :
        /\ o \notin DOMAIN session_objects
        /\ \A x \in 1..(o - 1) : x \in DOMAIN session_objects

\* ------------------------------------------------------------------- delete
\* the ChatSession objects the loop over chat_sessions visits
Attached(o) == \E sid \in DOMAIN chat_sessions : chat_sessions[sid] = o

\* what DELETE /api/files/{file_id} answers.  When nothing was deleted the
\* handler raises HTTPException(404) inside its own try, the `except
\* Exception` catches it, and its first line uses the undefined name
\* `logger`: the request ends in a NameError (an internal server error).
DeleteResult(file_id) ==
    IF \/ file_id \in DOMAIN vector_databases
       \/ file_id \in DOMAIN indexing_status
       \/ file_id \in DOMAIN memory_stored_files
       \/ (~IS_READONLY /\ file_id \in uploads_dir)
    THEN "deleted"
    ELSE "NameError"

\* DELETE /api/files/{file_id}
delete_file(file_id) ==
    LET pruned(o) == IF Attached(o) /\ InList(session_objects[o].file_ids, file_id)
                     THEN [session_objects[o] EXCEPT
                              !.file_ids = ListRemove(@, file_id)]
                     ELSE session_objects[o]
        emptied(sid) == /\ InList(session_objects[chat_sessions[sid]].file_ids, file_id)
                        /\ pruned(chat_sessions[sid]).file_ids = << >>
        sessions == [sid \in { x \in DOMAIN chat_sessions : ~emptied(x) }
                        |-> chat_sessions[sid]]
    IN
    /\ file_id \in ClientFileIds
    /\ vector_databases' = Del(vector_databases, file_id)
    /\ indexing_status' = Del(indexing_status, file_id)
    /\ memory_stored_files' = Del(memory_stored_files, file_id)
    /\ uploads_dir' = IF IS_READONLY THEN uploads_dir ELSE uploads_dir \ {file_id}
    /\ chat_sessions' = sessions
    /\ session_objects' = Collect([o \in DOMAIN session_objects |-> pruned(o)],
                                  sessions, chat_turns)
    /\ UNCHANGED << chunker, IS_READONLY, OPENAI_API_KEY, chat_history_dir, index_tasks,
                    chat_turns, usedIds >>

\* --------------------------------------------------------------------- chat
\* VectorDatabase.search_by_text(query, k, return_as_text=True): the k best
\* chunks of the store, best first; chunk i of a store is named by its rank i
SearchByText(store, k) ==
    [i \in 1..(IF k <= store.vectors THEN k ELSE store.vectors) |-> i]

\* a loop that puts each file's results in front of those gathered so far
RECURSIVE RelevantChunks_prepended(_)
RelevantChunks_prepended(file_ids) ==
    IF file_ids = << >>
    THEN << >>
    ELSE LET found == SearchByText(vector_databases[Head(file_ids)], PerDocumentK)
         IN  RelevantChunks_prepended(Tail(file_ids))
             \o [i \in 1..Len(found) |-> << Head(file_ids), found[i] >>]

\* all_relevant_chunks after the loop over request.file_ids: every file's
\* results appended in list order, a chunk named <<file id, rank>>
RECURSIVE RelevantChunks(_)
RelevantChunks(file_ids) ==
    IF file_ids = << >>
    THEN << >>
    ELSE LET found == SearchByText(vector_databases[Head(file_ids)], PerDocumentK)
         IN  [i \in 1..Len(found) |-> << Head(file_ids), found[i] >>]
             \o RelevantChunks(Tail(file_ids))

\* the ids the readiness loop reports, with the status it prints for each
NotReady(file_ids) ==
    [missing |-> SelectSeq([i \in 1..Len(file_ids) |-> << file_ids[i], StatusOf(file_ids[i]) >>],
                           LAMBDA e : e[1] \notin DOMAIN vector_databases /\ e[2] # "failed"),
     failed  |-> SelectSeq([i \in 1..Len(file_ids) |-> << file_ids[i], StatusOf(file_ids[i]) >>],
                           LAMBDA e : e[1] \notin DOMAIN vector_databases /\ e[2] = "failed")]

\* how POST /api/chat-file ends for a request in the current state; `searched`
\* is whether every search_by_text call (an embedding request) returned
ChatOutcome(file_ids, searched) ==
    IF file_ids = << >> THEN "no_file_ids"
    ELSE IF NotReady(file_ids).missing # << >> \/ NotReady(file_ids).failed # << >>
         THEN "not_ready"
    ELSE IF ~searched THEN "chat_error"
    ELSE IF RelevantChunks(file_ids) = << >> THEN "no_relevant_content"
    ELSE IF ~OPENAI_API_KEY THEN "no_api_key"
    ELSE "streaming"

\* a request's position: idle (not yet received), responding (the handler has
\* returned its StreamingResponse), streaming (generate() is suspended at a
\* yield), done
IdleTurn == [pc |-> "idle", session |-> 0, fragments |-> 0]
DoneTurn == [pc |-> "done", session |-> 0, fragments |-> 0]

\* a lookup that misses the record another request has just created
session_exists_missed(session_id) == FALSE

\* `session_id not in chat_sessions`, negated: get rather than create
session_exists(session_id) == session_id \in DOMAIN chat_sessions

\* POST /api/chat-file, the handler up to `return StreamingResponse(...)`.
\* request.session_id or str(uuid.uuid4()): either way some session id.
\* Requests are numbered in the order they arrive.
chat_with_file(t, file_ids, session_id, searched) ==
    /\ chat_turns[t].pc = "idle"
    /\ file_ids \in ClientFileIdLists
    /\ \A u \in 1..(t - 1) : chat_turns[u].pc # "idle"
    /\ LET outcome == ChatOutcome(file_ids, searched)
           o       == IF session_exists(session_id)
                      THEN chat_sessions[session_id]
                      ELSE NewObject
           objects == IF session_exists(session_id)
                      THEN session_objects
                      ELSE Put(session_objects, o, NewSession(session_id, file_ids))
       IN
       IF outcome \in {"no_file_ids", "not_ready"}
       THEN UNCHANGED << chat_sessions, session_objects, chat_turns >>
       ELSE /\ chat_sessions' = Put(chat_sessions, session_id, o)
            /\ IF outcome = "streaming"
               THEN /\ session_objects' =
                          [objects EXCEPT ![o].messages =
                              Append(@, Message("user", "question", t))]
                    /\ chat_turns' = [chat_turns EXCEPT ![t] =
                          [pc |-> "responding", session |-> o, fragments |-> 0]]
               ELSE /\ session_objects' = objects
                    /\ UNCHANGED chat_turns
    /\ UNCHANGED << chunker, IS_READONLY, OPENAI_API_KEY, indexing_status, vector_databases,
                    memory_stored_files, uploads_dir, chat_history_dir,
                    index_tasks, usedIds >>

\* an except branch that yields the error without recording it
WithReply_error_dropped(messages, event, fragments, t) ==
    IF event = "end"
    THEN Append(messages, Message("assistant", ToString(fragments), t))
    ELSE messages

\* an except branch that records the error under another role
WithReply_error_misfiled(messages, event, fragments, t) ==
    Append(messages,
           Message(IF event = "end" THEN "assistant" ELSE "system",
                   IF event = "end" THEN ToString(fragments) ELSE "Error", t))

\* session.messages after generate() has appended its assistant message: the
\* accumulated response_content when the stream ended, "Error: ..." when
\* create or the iteration raised
WithReply(messages, event, fragments, t) ==
    Append(messages,
           Message("assistant",
                   IF event = "end" THEN ToString(fragments) ELSE "Error", t))

\* generate() from where it was suspended to its next suspension.  event is
\* what the completion stream does next: "chunk" (a fragment arrives and is
\* yielded), "end" (the stream is exhausted) or "error" (create or the
\* iteration raises).  The last two append the assistant message and call
\* save_chat_session(session), whose write succeeds or not (`written`).
generate(t, event, written) ==
    /\ chat_turns[t].pc \in {"responding", "streaming"}
    /\ IF event = "chunk"
       THEN /\ chat_turns[t].fragments < MaxStream
            /\ chat_turns' = [chat_turns EXCEPT ![t].pc = "streaming",
                                                ![t].fragments = @ + 1]
            /\ UNCHANGED << chat_sessions, chat_history_dir, session_objects >>
       ELSE LET o        == chat_turns[t].session
                session  == [session_objects[o] EXCEPT
                                !.messages = WithReply(@, event,
                                                 chat_turns[t].fragments, t)]
                turns    == [chat_turns EXCEPT ![t] = DoneTurn]
                saved    == save_chat_session(session, o, written)
            IN  /\ chat_turns' = turns
                /\ chat_sessions' = saved.chat_sessions
                /\ chat_history_dir' = saved.chat_history_dir
                /\ session_objects' =
                       Collect([session_objects EXCEPT ![o] = session],
                               saved.chat_sessions, turns)
    /\ UNCHANGED << chunker, IS_READONLY, OPENAI_API_KEY, indexing_status, vector_databases,
                    memory_stored_files, uploads_dir, index_tasks, usedIds >>

\* GET /api/chat-history and GET /api/chat-history/{session_id}: return
\* get_all_chat_sessions and load_chat_session(session_id), write nothing
get_chat_history(session_id) ==
    /\ load_chat_session(session_id) \in get_all_chat_sessions \cup {NoSession}
    /\ UNCHANGED vars

\* ---------------------------------------------------------------- behaviours
StreamEvents == {"chunk", "end", "error"}

\* the document side: uploads, the indexing tasks, pre-indexed acceptance,
\* status reads and deletion
NextIndexing ==
    \/ \E ty \in FileTypes : upload_file(ty)
    \/ \E f \in FileIds, ok \in BOOLEAN, n \in 0..MaxChunks : index_file_start(f, ok, n)
    \/ \E f \in FileIds, e \in BOOLEAN, w \in BOOLEAN : index_file_finish(f, e, w)
    \/ \E f \in FileIds, n \in 0..MaxChunks, m \in 0..MaxChunks, i \in BOOLEAN :
           accept_pre_indexed_file(f, n, m, i)
    \/ \E f \in FileIds : get_file_indexing_status(f)
    \/ \E f \in FileIds : delete_file(f)

\* the chat side: documents made queryable by pre-indexed acceptance, chat
\* requests, their generators, history reads and deletion
NextChat ==
    \/ \E f \in FileIds, n \in 0..MaxChunks, m \in 0..MaxChunks, i \in BOOLEAN :
           accept_pre_indexed_file(f, n, m, i)
    \/ \E f \in FileIds : delete_file(f)
    \/ \E t \in Turns, l \in FileIdLists, sid \in SessionIds, s \in BOOLEAN :
           chat_with_file(t, l, sid, s)
    \/ \E t \in Turns, ev \in StreamEvents, w \in BOOLEAN : generate(t, ev, w)
    \/ \E sid \in SessionIds : get_chat_history(sid)

Next == NextIndexing \/ NextChat

\* Every request and task step in any order.
Spec == Init /\ [][Next]_vars

\* The two sides share only indexing_status and vector_databases (which the
\* chat side reads and never writes) and delete_file.  The claims about the
\* status table are checked with no chat request arriving, the claims about
\* sessions with every document arriving pre-indexed.
SpecIndexing == Init /\ [][NextIndexing]_vars

\* asyncio.create_task(index_file(...)): the event loop runs the task's first
\* step, and resumes it once the awaited embedding call has returned or
\* raised, which it is taken to do
IndexingFairness ==
    \A f \in FileIds :
        /\ WF_vars(\E ok \in BOOLEAN, n \in 0..MaxChunks : index_file_start(f, ok, n))
        /\ WF_vars(\E e \in BOOLEAN, w \in BOOLEAN : index_file_finish(f, e, w))

SpecIndexingFair == SpecIndexing /\ IndexingFairness

SpecChat == Init /\ [][NextChat]_vars

\* uploaded documents, indexed by their background jobs, and chat requests
\* on them
NextUploadChat ==
    \/ \E ty \in FileTypes : upload_file(ty)
    \/ \E f \in FileIds, ok \in BOOLEAN, n \in 0..MaxChunks : index_file_start(f, ok, n)
    \/ \E f \in FileIds, e \in BOOLEAN, w \in BOOLEAN : index_file_finish(f, e, w)
    \/ \E t \in Turns, l \in FileIdLists, sid \in SessionIds, s \in BOOLEAN :
           chat_with_file(t, l, sid, s)
    \/ \E t \in Turns, ev \in StreamEvents, w \in BOOLEAN : generate(t, ev, w)

SpecUploadChat == Init /\ [][NextUploadChat]_vars

\* uploaded documents and their jobs, with the two kinds of query a client
\* makes of them: status reads and chat requests
NextQueries ==
    \/ \E ty \in FileTypes : upload_file(ty)
    \/ \E f \in FileIds, ok \in BOOLEAN, n \in 0..MaxChunks : index_file_start(f, ok, n)
    \/ \E f \in FileIds, e \in BOOLEAN, w \in BOOLEAN : index_file_finish(f, e, w)
    \/ \E f \in FileIds : get_file_indexing_status(f)
    \/ \E t \in Turns, l \in FileIdLists, sid \in SessionIds, s \in BOOLEAN :
           chat_with_file(t, l, sid, s)
    \/ \E t \in Turns, ev \in StreamEvents, w \in BOOLEAN : generate(t, ev, w)

SpecQueries == Init /\ [][NextQueries]_vars

\* the document whose embedding call may never return: the first one uploaded
HungFile == CHOOSE f \in FileIds : \A g \in FileIds : f <= g

\* Every task but the suspended one of HungFile is resumed once its awaited
\* call has returned or raised, and the generator of a StreamingResponse is
\* driven until it is exhausted.
QueriesFairness ==
    /\ \A f \in FileIds :
           WF_vars(\E ok \in BOOLEAN, n \in 0..MaxChunks : index_file_start(f, ok, n))
    /\ \A f \in FileIds \ {HungFile} :
           WF_vars(\E e \in BOOLEAN, w \in BOOLEAN : index_file_finish(f, e, w))
    /\ \A t \in Turns :
           WF_vars(\E ev \in StreamEvents, w \in BOOLEAN : generate(t, ev, w))

SpecQueriesFair == SpecQueries /\ QueriesFairness

\* the splitter alone, on every text length
NextSplit == \E length \in TextLengths : split_texts(length)

SpecSplit == Init /\ [][NextSplit]_vars

\* chat requests and their generators alone, in any interleaving: no
\* document is deleted while they run
NextTurns ==
    \/ \E f \in FileIds, n \in 0..MaxChunks, m \in 0..MaxChunks, i \in BOOLEAN :
           accept_pre_indexed_file(f, n, m, i)
    \/ \E t \in Turns, l \in FileIdLists, sid \in SessionIds, s \in BOOLEAN :
           chat_with_file(t, l, sid, s)
    \/ \E t \in Turns, ev \in StreamEvents, w \in BOOLEAN : generate(t, ev, w)
    \/ \E sid \in SessionIds : get_chat_history(sid)

SpecTurns == Init /\ [][NextTurns]_vars

\* =================================================================== claims

\* ------------------------------------------------------------------------ C1
\* the stages of the indexing state machine, in the order the claim gives
\* them.  pending -> failed is index_file's first step, which writes
\* "indexing" and then "failed" without suspending in between; a record that
\* delete_file removes reads "unknown".
Advances(s, t) ==
    \/ t = s
    \/ t = "unknown"
    \/ << s, t >> \in { << "unknown", "pending" >>, << "pending", "indexing" >>,
                       << "indexing", "completed" >>, << "indexing", "failed" >>,
                       << "pending", "failed" >> }

C2_NotCompletedIsNotReady ==
    \A l \in FileIdLists, searched \in BOOLEAN :
        (\E i \in 1..Len(l) : StatusOf(l[i]) # "completed")
            => ChatOutcome(l, searched) = "not_ready"

\* ------------------------------------------------------------------------ C3
\* C3: once a document's status is completed or failed, no step changes it
\* to another status (delete_file, which removes the record, aside).
C3_TerminalIsFinal ==
    [][\A f \in FileIds :
          StatusOf(f) \in {"completed", "failed"}
              => StatusOf(f)' \in {StatusOf(f), "unknown"}]_vars

\* ------------------------------------------------------------------------ C4
\* C4: when the indexing task of a document ends while the document has no
\* status record (delete_file removed it after the task was created), the
\* step that ends the task adds no entry for the document to the status
\* table or to the document -> store map.
C4_DeletedStaysDeleted ==
    [][\A f \in FileIds :
          (/\ f \in DOMAIN index_tasks
           /\ f \notin DOMAIN index_tasks'
           /\ f \notin DOMAIN indexing_status)
              => (/\ f \notin DOMAIN indexing_status'
                  /\ f \notin DOMAIN vector_databases')]_vars

\* ------------------------------------------------------------------------ C5
\* C5: whenever a document's status is completed, the document -> store map
\* holds a store for it with one vector inserted for every chunk.
C5_CompletedHasFullStore ==
    \A f \in FileIds :
        StatusOf(f) = "completed"
            => /\ f \in DOMAIN vector_databases
               /\ vector_databases[f].vectors = vector_databases[f].chunks

\* a completed document of more than one chunk
C5_Witness ==
    \E f \in FileIds : /\ StatusOf(f) = "completed"
                       /\ f \in DOMAIN vector_databases
                       /\ vector_databases[f].chunks > 1

\* ------------------------------------------------------------------------ C6
\* the request is between `return StreamingResponse` and the end of generate()
Active(t) == chat_turns[t].pc \in {"responding", "streaming"}

\* how many messages of the given role request t has in a message list
CountOf(messages, role, t) ==
    Cardinality({ i \in 1..Len(messages) :
                     messages[i].role = role /\ messages[i].turn = t })

\* while the generation call of request t is pending or running, its session
\* holds the request's user message and no assistant message of the request
C6_UserMessageFirst ==
    \A t \in Turns :
        Active(t) =>
            /\ chat_turns[t].session \in DOMAIN session_objects
            /\ CountOf(session_objects[chat_turns[t].session].messages, "user", t) = 1
            /\ CountOf(session_objects[chat_turns[t].session].messages, "assistant", t) = 0

\* a step of request t that does not end its generation persists nothing; the
\* step that ends it (the stream is exhausted or raises) appends exactly one
\* assistant message, the accumulated response or the error placeholder, and
\* saves once: what load_chat_session then returns is the session with that
\* message last, unless the write of the session file failed and the file is
\* as it was
C6_ReplyOnceAtEnd ==
    \A t \in Turns :
        /\ (chat_turns'[t] # chat_turns[t] /\ chat_turns'[t].pc # "done")
              => chat_history_dir' = chat_history_dir
        /\ (Active(t) /\ Active(t)' /\ chat_turns'[t] # chat_turns[t])
              => UNCHANGED << chat_sessions, session_objects >>
        /\ (Active(t) /\ chat_turns'[t].pc = "done")
              => \A sid \in SessionIds :
                    session_objects[chat_turns[t].session].session_id = sid
                    => \E content \in {"Error", ToString(chat_turns[t].fragments)} :
                          \/ load_chat_session(sid)'.messages =
                                 Append(session_objects[chat_turns[t].session].messages,
                                        Message("assistant", content, t))
                          \/ ~IS_READONLY /\ chat_history_dir' = chat_history_dir

\* C6: for every chat turn the user message is in the session before the
\* generation call begins, and exactly one assistant message (the full
\* accumulated response or an error placeholder) is appended and the session
\* persisted, once, when the generation call completes or fails.
C6_TurnOrdering == []C6_UserMessageFirst /\ [][C6_ReplyOnceAtEnd]_vars

\* a finished turn whose persisted session ends with an error placeholder
\* that follows a user message
C6_Witness ==
    \E t \in Turns, sid \in SessionIds :
        /\ chat_turns[t].pc = "done"
        /\ Len(load_chat_session(sid).messages) > 1
        /\ load_chat_session(sid).messages[Len(load_chat_session(sid).messages)]
               = Message("assistant", "Error", t)

\* ------------------------------------------------------------------------ C7
\* every user message of the list has the assistant reply of its request in
\* the list
NoDangling(messages) ==
    \A i \in 1..Len(messages) :
        messages[i].role = "user" => CountOf(messages, "assistant", messages[i].turn) > 0

\* C7: every session file under chat_history/ (each is a snapshot written by
\* save_chat_session) holds no user message without its assistant reply.
C7_NoDanglingUserMessage ==
    \A sid \in DOMAIN chat_history_dir :
        NoDangling(json_load(chat_history_dir[sid]).messages)

\* ------------------------------------------------------------------------ C8
\* C8: the persisted transcript of a session id only grows: whenever the
\* store holds a session for the id before and after a step, the messages it
\* held before are a prefix of the messages it holds after.
C8_AppendOnly ==
    [][\A sid \in SessionIds :
          (load_chat_session(sid) # NoSession /\ load_chat_session(sid)' # NoSession)
              => IsPrefix(load_chat_session(sid).messages,
                          load_chat_session(sid)'.messages)]_vars

\* ------------------------------------------------------------------------ C9
\* load_chat_session(session.session_id) right after a save_chat_session(session)
\* whose write went through
LoadAfterSave(o) ==
    LET sid   == session_objects[o].session_id
        saved == save_chat_session(session_objects[o], o, TRUE)
    IN  IF IS_READONLY
        THEN session_objects[saved.chat_sessions[sid]]
        ELSE json_load(saved.chat_history_dir[sid])

C10_DeletedIdInNoSession ==
    [][\A f \in FileIds :
          delete_file(f) =>
              /\ \A sid \in SessionIds : ~InList(load_chat_session(sid)'.file_ids, f)
              /\ \A session \in get_all_chat_sessions' : ~InList(session.file_ids, f)]_vars

\* ----------------------------------------------------------------------- C11
\* C11: when delete_file(id) runs while the session store holds a session
\* whose only document id is id, the state it ends in has no session of that
\* session id: load_chat_session returns None for it and
\* get_all_chat_sessions lists none.
C11_LastDocumentDeletesSession ==
    [][\A f \in FileIds, sid \in SessionIds :
          (delete_file(f) /\ load_chat_session(sid).file_ids = << f >>)
              => /\ load_chat_session(sid)' = NoSession
                 /\ \A session \in get_all_chat_sessions' : session.session_id # sid]_vars

\* ----------------------------------------------------------------------- C12
\* C12: under any interleaving of chat requests, a session id has at most one
\* ChatSession record, and two requests in flight with the same session id
\* hold that one record, the one chat_sessions maps the id to, with the user
\* message of each appended to it.
C12_OneRecordPerSessionId ==
    /\ \A o1 \in DOMAIN session_objects, o2 \in DOMAIN session_objects :
           session_objects[o1].session_id = session_objects[o2].session_id => o1 = o2
    /\ \A t \in Turns :
           Active(t) =>
              /\ chat_turns[t].session \in DOMAIN session_objects
              /\ session_objects[chat_turns[t].session].session_id \in DOMAIN chat_sessions
              /\ chat_sessions[session_objects[chat_turns[t].session].session_id]
                     = chat_turns[t].session
              /\ CountOf(session_objects[chat_turns[t].session].messages, "user", t) = 1

\* two requests in flight at once on one session record, which was created
\* by the first and holds the user message of both
C12_Witness ==
    \E t \in Turns, u \in Turns :
        /\ t # u
        /\ Active(t) /\ Active(u)
        /\ chat_turns[t].session = chat_turns[u].session
        /\ CountOf(session_objects[chat_turns[t].session].messages, "user", t) = 1
        /\ CountOf(session_objects[chat_turns[t].session].messages, "user", u) = 1

\* ----------------------------------------------------------------------- C13
\* C13: an indexing job that has started (it set "indexing" and is awaiting
\* the embedding call) eventually ends with the document's status completed
\* or failed, whether or not the document is deleted meanwhile; and a status
\* of "indexing" does not stay forever.
C13_StartedJobTerminates ==
    \A f \in FileIds :
        /\ (f \in DOMAIN index_tasks /\ index_tasks[f].pc = "embedding")
               ~> (f \notin DOMAIN index_tasks /\ StatusOf(f) \in {"completed", "failed"})
        /\ (StatusOf(f) = "indexing") ~> (StatusOf(f) # "indexing")

\* a document deleted while its job was awaiting the embedding call, whose
\* job has then run to its end
C13_Witness ==
    \E f \in FileIds :
        /\ ~IS_READONLY
        /\ f \in usedIds
        /\ f \notin uploads_dir
        /\ f \notin DOMAIN index_tasks
        /\ f \in DOMAIN indexing_status
        /\ indexing_status[f].message \in {"indexed", "embedding", "index write"}

\* ----------------------------------------------------------------------- C14
\* C14: in the state an accepted upload ends in, in either environment, the
\* status table holds a record for the document id the response carries and
\* the record's status is pending (what the response itself announces).
C14_UploadRecordsPending ==
    [][\A f \in FileIds :
          (f \notin usedIds /\ f \in usedIds' /\ \E ty \in FileTypes : upload_file(ty))
              => /\ f \in DOMAIN indexing_status'
                 /\ StatusOf(f)' = UploadResponseStatus]_vars

\* ----------------------------------------------------------------------- C15
\* C15: what a status read reports for an id is "unknown" exactly when the
\* status table has no record for the id; with a record it is one of the
\* four stages, the one the record holds, and without one it is not
\* "pending".
C15_UnknownIffNoRecord ==
    \A f \in FileIds :
        /\ (StatusOf(f) = "unknown") <=> (f \notin DOMAIN indexing_status)
        /\ f \in DOMAIN indexing_status
              => /\ StatusOf(f) = indexing_status[f].status
                 /\ StatusOf(f) \in {"pending", "indexing", "completed", "failed"}
        /\ f \notin DOMAIN indexing_status => StatusOf(f) # "pending"

\* an id issued by an upload that has no record (a read-only upload, or a
\* deleted document) next to an id that has one
C15_Witness ==
    \E f \in FileIds, g \in FileIds :
        /\ f \in usedIds /\ f \in ClientFileIds
        /\ f \notin DOMAIN indexing_status
        /\ g \in ClientFileIds
        /\ g \in DOMAIN indexing_status

\* ----------------------------------------------------------------------- C16
\* C16: when the indexing job of a document whose text split into zero
\* chunks ends, the document's status is failed and the job has installed no
\* store for it.
C16_ZeroChunksFails ==
    [][\A f \in FileIds :
          (/\ f \in DOMAIN index_tasks
           /\ index_tasks[f].pc = "embedding"
           /\ index_tasks[f].chunks = 0
           /\ f \notin DOMAIN index_tasks')
              => /\ StatusOf(f)' = "failed"
                 /\ f \in DOMAIN vector_databases'
                       => (f \in DOMAIN vector_databases
                           /\ vector_databases'[f] = vector_databases[f])]_vars

\* ----------------------------------------------------------------------- C17
\* C17: the step of an indexing job in which extraction fails, or in which
\* the embedding call fails, leaves the document -> store map as it was (no
\* store, partial or whole, is installed) and leaves the document with status
\* failed and the cause as its message.
C17_FailureInstallsNothing ==
    [][\A f \in FileIds :
          /\ (\E n \in 0..MaxChunks : index_file_start(f, FALSE, n))
                => /\ vector_databases' = vector_databases
                   /\ f \in DOMAIN indexing_status'
                   /\ indexing_status'[f] = [status |-> "failed", message |-> "extraction"]
          /\ (\E w \in BOOLEAN : index_file_finish(f, FALSE, w))
                => /\ vector_databases' = vector_databases
                   /\ f \in DOMAIN indexing_status'
                   /\ indexing_status'[f] = [status |-> "failed", message |-> "embedding"]]_vars

\* an uploaded document whose job ended at a failed embedding call, with no
\* store
C17_Witness ==
    \E f \in FileIds :
        /\ f \in uploads_dir
        /\ f \notin DOMAIN index_tasks
        /\ f \notin DOMAIN vector_databases
        /\ f \in DOMAIN indexing_status
        /\ indexing_status[f].message = "embedding"

\* ----------------------------------------------------------------------- C18
\* the listed ids whose status is not completed, each with its status, in
\* list order
Offending(file_ids) ==
    SelectSeq([i \in 1..Len(file_ids) |-> << file_ids[i], StatusOf(file_ids[i]) >>],
              LAMBDA e : e[2] # "completed")

\* a rejection as not-ready names exactly the listed ids whose status is not
\* completed, the failed ones apart from the others, each with its status
C18_NamesOffending ==
    \A l \in FileIdLists, searched \in BOOLEAN :
        ChatOutcome(l, searched) = "not_ready"
            => /\ NotReady(l).failed = SelectSeq(Offending(l), LAMBDA e : e[2] = "failed")
               /\ NotReady(l).missing = SelectSeq(Offending(l), LAMBDA e : e[2] # "failed")

\* a request rejected as not-ready leaves the status table, the document ->
\* store map and the sessions as they were
C18_RejectionChangesNothing ==
    \A t \in Turns, l \in FileIdLists, sid \in SessionIds, searched \in BOOLEAN :
        (chat_with_file(t, l, sid, searched) /\ ChatOutcome(l, searched) = "not_ready")
            => UNCHANGED << indexing_status, vector_databases, chat_sessions,
                            session_objects, chat_history_dir >>

\* C18: a chat request rejected as not-ready names exactly the offending
\* document ids with their current status and changes no state.
C18_NotReadyNamesAndKeeps ==
    []C18_NamesOffending /\ [][C18_RejectionChangesNothing]_vars

\* ----------------------------------------------------------------------- C19
\* C19: a chat request that ends with the no-relevant-content error (every
\* listed document is completed and the searches return no chunk) changes no
\* state: no session record is created or modified and nothing is persisted.
C19_NoContentChangesNothing ==
    [][\A t \in Turns, l \in FileIdLists, sid \in SessionIds, searched \in BOOLEAN :
          (/\ chat_with_file(t, l, sid, searched)
           /\ \A i \in 1..Len(l) : StatusOf(l[i]) = "completed"
           /\ ChatOutcome(l, searched) = "no_relevant_content")
              => UNCHANGED << indexing_status, vector_databases, chat_sessions,
                              session_objects, chat_history_dir >>]_vars

\* ----------------------------------------------------------------------- C20
\* the messages of request t's session once its failed generation call has
\* been recorded: what they were, the request's user message among them, and
\* one assistant message holding the error after them
Recorded(t) ==
    Append(session_objects[chat_turns[t].session].messages,
           Message("assistant", "Error", t))

\* C20: the step in which the generation call of a chat turn fails, before
\* the first fragment or after some, appends one assistant message holding
\* the error behind the turn's user message and saves the session: the
\* stored session of that id then holds the turn (on the durable backend,
\* unless the write of the session file failed and the file is as it was).
C20_ErrorTurnRecorded ==
    [][\A t \in Turns, w \in BOOLEAN :
          generate(t, "error", w) =>
             /\ CountOf(Recorded(t), "user", t) = 1
             /\ CountOf(Recorded(t), "assistant", t) = 1
             /\ chat_turns[t].session \in DOMAIN session_objects'
                   => session_objects'[chat_turns[t].session].messages = Recorded(t)
             /\ \A sid \in SessionIds :
                   session_objects[chat_turns[t].session].session_id = sid
                       => \/ load_chat_session(sid)'.messages = Recorded(t)
                          \/ ~IS_READONLY /\ ~w /\ chat_history_dir' = chat_history_dir]_vars

\* a session file that holds a turn whose generation call failed: the user
\* message and, behind it, the error as an assistant message
C20_Witness ==
    \E sid \in DOMAIN chat_history_dir, t \in Turns :
        LET messages == json_load(chat_history_dir[sid]).messages IN
        \E i \in 1..Len(messages), j \in 1..Len(messages) :
            /\ i < j
            /\ messages[i] = Message("user", "question", t)
            /\ messages[j] = Message("assistant", "Error", t)

\* ----------------------------------------------------------------------- C21
\* how many chunks a document contributes: its top 2, or all it has
Contribution(f) ==
    IF vector_databases[f].vectors >= 2 THEN 2 ELSE vector_databases[f].vectors

\* how many chunks the documents listed before position i contribute
RECURSIVE ContextOffset(_, _)
ContextOffset(file_ids, i) ==
    IF i <= 1 THEN 0
    ELSE ContextOffset(file_ids, i - 1) + Contribution(file_ids[i - 1])

\* C21: for a request listing documents that all have a store, the assembled
\* context holds, for each list position in list order, that document's top
\* 2 results in the order its store returned them, and nothing else; two
\* documents of at least 2 chunks each give exactly 4 chunks in that order.
C21_ContextInListOrder ==
    \A l \in FileIdLists :
        (\A i \in 1..Len(l) : l[i] \in DOMAIN vector_databases)
            => /\ Len(RelevantChunks(l)) = ContextOffset(l, Len(l) + 1)
               /\ \A i \in 1..Len(l) : \A r \in 1..Contribution(l[i]) :
                      RelevantChunks(l)[ContextOffset(l, i) + r] = << l[i], r >>
               /\ (Len(l) = 2 /\ Contribution(l[1]) = 2 /\ Contribution(l[2]) = 2)
                     => RelevantChunks(l) = << << l[1], 1 >>, << l[1], 2 >>,
                                               << l[2], 1 >>, << l[2], 2 >> >>

\* a chat request in flight on two different completed documents of two
\* chunks each
C21_Witness ==
    \E t \in Turns :
        /\ Active(t)
        /\ Len(session_objects[chat_turns[t].session].file_ids) = 2
        /\ LET l == session_objects[chat_turns[t].session].file_ids IN
              /\ l[1] # l[2]
              /\ \A i \in 1..2 : /\ l[i] \in DOMAIN vector_databases
                                  /\ StatusOf(l[i]) = "completed"
                                  /\ vector_databases[l[i]].vectors = 2
              /\ Len(RelevantChunks(l)) = 4

\* ----------------------------------------------------------------------- C22
\* C22: when a chat request is accepted as a turn of a session (its user
\* message is recorded), every document the request lists, which are the
\* documents its searches query, is among the session's file ids.
C22_QueriedWithinSession ==
    [][\A t \in Turns, l \in FileIdLists, sid \in SessionIds, searched \in BOOLEAN :
          (chat_with_file(t, l, sid, searched) /\ ChatOutcome(l, searched) = "streaming")
              => \A o \in DOMAIN session_objects' :
                    chat_turns'[t].session = o
                        => \A i \in 1..Len(l) : InList(session_objects'[o].file_ids, l[i])]_vars

C24_QueriesLeaveIndexingAlone ==
    [][(\/ \E f \in FileIds : get_file_indexing_status(f)
        \/ \E t \in Turns, l \in FileIdLists, sid \in SessionIds, s \in BOOLEAN :
               chat_with_file(t, l, sid, s)
        \/ \E t \in Turns, ev \in StreamEvents, w \in BOOLEAN : generate(t, ev, w))
          => /\ indexing_status' = indexing_status
             /\ vector_databases' = vector_databases
             /\ index_tasks' = index_tasks
             /\ \A f \in FileIds :
                    StatusOf(f) = "failed" => indexing_status'[f].status = "failed"]_vars

\* a failed document that a chat request has queried (the session the
\* request created lists it) and that is still failed, with no job running
C24_Witness ==
    \E f \in FileIds :
        /\ StatusOf(f) = "failed"
        /\ index_tasks = EmptyDict
        /\ \E o \in DOMAIN session_objects : InList(session_objects[o].file_ids, f)

\* ----------------------------------------------------------------------- C25
\* key g has the same entry, or no entry, in the dicts d and e
SameEntry(d, e, g) ==
    /\ g \in DOMAIN d <=> g \in DOMAIN e
    /\ g \in DOMAIN d => d[g] = e[g]

\* C25: every step of the indexing job of a document f (its first step, which
\* may end in the extraction failure, and its step after the embedding call,
\* which may end in a failure too) leaves the status record and the store of
\* every other document g as they were, present or absent.
C25_JobsIsolated ==
    [][\A f \in FileIds :
          (\/ \E ok \in BOOLEAN, n \in 0..MaxChunks : index_file_start(f, ok, n)
           \/ \E e \in BOOLEAN, w \in BOOLEAN : index_file_finish(f, e, w))
             => \A g \in FileIds \ {f} :
                    /\ SameEntry(indexing_status, indexing_status', g)
                    /\ SameEntry(vector_databases, vector_databases', g)]_vars

\* the job of one document has failed while the job of another is awaiting
\* its embedding call, its status still "indexing"
C25_Witness ==
    \E f \in FileIds, g \in FileIds :
        /\ f # g
        /\ StatusOf(f) = "failed"
        /\ indexing_status[f].message \in {"extraction", "embedding", "index write"}
        /\ f \notin DOMAIN index_tasks
        /\ g \in DOMAIN index_tasks
        /\ index_tasks[g].pc = "embedding"
        /\ StatusOf(g) = "indexing"

\* ----------------------------------------------------------------------- C26
\* the job of f is suspended at `await vector_db.abuild_from_list(chunks)`
Suspended(f) == f \in DOMAIN index_tasks /\ index_tasks[f].pc = "embedding"

\* t is the number the next chat request gets
NextTurn(t) == chat_turns[t].pc = "idle" /\ \A u \in 1..(t - 1) : chat_turns[u].pc # "idle"

\* C26: while the job of a document f is suspended in its embedding call, a
\* status read of any id can be served, the job of every other document can
\* take its next step, a chat request on another, completed document can be
\* served and a running response can go on; and even if the embedding call
\* of one document never returns, the job of every other document ends and
\* every chat response that has begun is finished.
C26_OthersProceed ==
    /\ [](\A f \in FileIds :
             Suspended(f) =>
                /\ \A g \in FileIds :
                       (g \in DOMAIN index_tasks => index_tasks[g].pc # "created")
                          => ENABLED get_file_indexing_status(g)
                /\ \A g \in FileIds \ {f} :
                       g \in DOMAIN index_tasks =>
                          ENABLED (\/ \E ok \in BOOLEAN, n \in 0..MaxChunks :
                                         index_file_start(g, ok, n)
                                   \/ \E e \in BOOLEAN, w \in BOOLEAN :
                                         index_file_finish(g, e, w))
                /\ \A g \in FileIds \ {f}, t \in Turns, sid \in SessionIds :
                       (StatusOf(g) = "completed" /\ g \in DOMAIN vector_databases
                           /\ g \notin DOMAIN index_tasks /\ NextTurn(t))
                          => ENABLED chat_with_file(t, << g >>, sid, TRUE)
                /\ \A t \in Turns :
                       chat_turns[t].pc \in {"responding", "streaming"}
                          => ENABLED (\E ev \in StreamEvents, w \in BOOLEAN :
                                         generate(t, ev, w)))
    /\ \A g \in FileIds \ {HungFile} :
           (g \in DOMAIN index_tasks)
              ~> (g \notin DOMAIN index_tasks /\ StatusOf(g) \in {"completed", "failed"})
    /\ \A t \in Turns :
           (chat_turns[t].pc \in {"responding", "streaming"}) ~> (chat_turns[t].pc = "done")

\* the first document's job is still suspended in its embedding call while
\* another document has been indexed and a chat request on it has been
\* answered to the end
C26_Witness ==
    /\ Suspended(HungFile)
    /\ \E g \in FileIds \ {HungFile} :
           /\ StatusOf(g) = "completed"
           /\ indexing_status[g].message = "indexed"
           /\ \E sid \in DOMAIN chat_history_dir :
                  /\ sid \in DOMAIN chat_sessions
                  /\ session_objects[chat_sessions[sid]].file_ids = << g >>
                  /\ Len(session_objects[chat_sessions[sid]].messages) >= 2

\* ----------------------------------------------------------------------- C27
\* C27: in every reachable state a document id has a store in
\* vector_databases only if its status record says completed: never while
\* its status is pending, indexing or failed, and never without a record.
C27_StoreOnlyIfCompleted ==
    \A f \in DOMAIN vector_databases : StatusOf(f) = "completed"

\* ----------------------------------------------------------------------- C28
\* file_id is in none of the places delete_file looks for a document
Absent(file_id) ==
    /\ file_id \notin DOMAIN vector_databases
    /\ file_id \notin DOMAIN indexing_status
    /\ file_id \notin DOMAIN memory_stored_files
    /\ file_id \notin uploads_dir

\* C28: DELETE /api/files/{file_id} for an id that is in none of the store
\* map, the status table, the in-memory files and the uploads directory is
\* answered, in every reachable state, with the not-found outcome (404 "File
\* not found"), not with an internal error; and the request changes nothing.
C28_AbsentDeleteIsNotFound ==
    /\ [](\A f \in ClientFileIds : Absent(f) => DeleteResult(f) = "not_found")
    /\ [][\A f \in FileIds : (Absent(f) /\ delete_file(f)) => UNCHANGED vars]_vars

====
